---- MODULE Spec2Model ----
(***************************************************************************)
(* The Measurement algebra of circuits/environment/src/helpers/            *)
(* measurement.rs: the three variants, the containment predicate `matches` *)
(* with its diagnostic on stderr, and the nine-case `compose`.  The value  *)
(* type V is instantiated as in the unit tests, by an unsigned machine     *)
(* integer (usize), scaled down to Width bits.                             *)
(***************************************************************************)
EXTENDS Integers, Sequences, FiniteSets

\* ------------------------------------------------------------- bounds ----
\* Largest value a caller declares or observes (the tests draw u16 values).
MaxVal == 3
\* Width in bits of the unsigned value type.
Width == 3
\* Number of matches calls of one run of the call harness.
MaxCalls == 1
\* Number of steps of one run of the sequence harness.
MaxSteps == 3

RECURSIVE Pow2(_)
Pow2(n) == IF n = 0 THEN 1 ELSE 2 * Pow2(n - 1)

Modulus == Pow2(Width)
MaxV == Modulus - 1
\* Every value of the type.
Values == 0..MaxV
\* The values the harnesses declare and observe.
Inputs == 0..MaxVal

\* --------------------------------------------------- enum Measurement ----
Exact(v) == <<"Exact", v>>
Range(lo, hi) == <<"Range", lo, hi>>
UpperBound(b) == <<"UpperBound", b>>
\* A result slot no call has filled yet.
None == <<"None">>

\* The measurements a caller can construct from the inputs; a Range is not
\* validated, so lo > hi is constructible.
Declared ==
    {Exact(v) : v \in Inputs}
        \cup {Range(lo, hi) : lo \in Inputs, hi \in Inputs}
        \cup {UpperBound(b) : b \in Inputs}

\* ------------------------------------------------------------ matches ----
\* A Range whose upper bound is inclusive.
matches_InclusiveUpper(self, candidate) ==
    CASE self[1] = "Exact" -> self[2] = candidate
      [] self[1] = "Range" -> candidate > self[2] /\ candidate <= self[3]
      [] self[1] = "UpperBound" -> candidate < self[2]

\* The `outcome` of matches: the match over the three variants.
matches(self, candidate) ==
    CASE self[1] = "Exact" -> self[2] = candidate
      [] self[1] = "Range" -> candidate > self[2] /\ candidate < self[3]
      [] self[1] = "UpperBound" -> candidate < self[2]

\* A diagnostic on every call.
Diagnostics_Always(outcome) == 1

\* The number of lines matches writes to stderr: `if !outcome { eprintln! }`.
Diagnostics(outcome) == IF ~outcome THEN 1 ELSE 0

\* ------------------------------------------------------------ compose ----
\* `+` of the value type, before the result is stored in Width bits.
Add(x, y) == x + y

\* The nine arms of compose, in the order of the source; each takes the
\* payloads its pattern binds.
\* A doubled operand in the first arm.
ExactExact_Doubled(a, c) == Exact(Add(a, a))
ExactExact(a, c) == Exact(Add(a, c))

\* The lower bound left unshifted.
ExactRange_LowerKept(a, lo, hi) == Range(lo, Add(a, hi))
ExactRange(a, lo, hi) == Range(Add(a, lo), Add(a, hi))

ExactUpperBound(a, c) == UpperBound(Add(a, c))

\* The upper bound left unshifted.
RangeExact_UpperKept(lo, hi, c) == Range(Add(lo, c), hi)
RangeExact(lo, hi, c) == Range(Add(lo, c), Add(hi, c))

\* The other lower bound added where the other upper bound belongs.
RangeRange_UpperFromLower(lo1, hi1, lo2, hi2) == Range(Add(lo1, lo2), Add(hi1, lo2))
RangeRange(lo1, hi1, lo2, hi2) == Range(Add(lo1, lo2), Add(hi1, hi2))

\* The other bound added to the lower bound instead of the upper.
RangeUpperBound_LowerShifted(lo, hi, c) == Range(Add(lo, c), hi)
RangeUpperBound(lo, hi, c) == Range(lo, Add(hi, c))

UpperBoundExact(a, c) == UpperBound(Add(a, c))

\* The result the comment above this arm announces: an UpperBound.
UpperBoundRange_AsCommented(a, lo, hi) == UpperBound(Add(a, hi))
UpperBoundRange(a, lo, hi) == Range(lo, Add(a, hi))

\* The other bound dropped.
UpperBoundUpperBound_SelfOnly(a, c) == UpperBound(a)
UpperBoundUpperBound(a, c) == UpperBound(Add(a, c))

compose(self, other) ==
    CASE self[1] = "Exact" /\ other[1] = "Exact" ->
            ExactExact(self[2], other[2])
      [] self[1] = "Exact" /\ other[1] = "Range" ->
            ExactRange(self[2], other[2], other[3])
      [] self[1] = "Exact" /\ other[1] = "UpperBound" ->
            ExactUpperBound(self[2], other[2])
      [] self[1] = "Range" /\ other[1] = "Exact" ->
            RangeExact(self[2], self[3], other[2])
      [] self[1] = "Range" /\ other[1] = "Range" ->
            RangeRange(self[2], self[3], other[2], other[3])
      [] self[1] = "Range" /\ other[1] = "UpperBound" ->
            RangeUpperBound(self[2], self[3], other[2])
      [] self[1] = "UpperBound" /\ other[1] = "Exact" ->
            UpperBoundExact(self[2], other[2])
      [] self[1] = "UpperBound" /\ other[1] = "Range" ->
            UpperBoundRange(self[2], other[2], other[3])
      [] self[1] = "UpperBound" /\ other[1] = "UpperBound" ->
            UpperBoundUpperBound(self[2], other[2])

\* Every payload of m is a value of the type.
InType(m) == \A i \in 2..Len(m) : m[i] <= MaxV

\* m as stored in Width bits when the additions wrap.
Truncate(m) == [i \in 1..Len(m) |-> IF i = 1 THEN m[1] ELSE m[i] % Modulus]

\* What one call self.compose(other) can do on an unsigned machine integer.
\* of: the overflow status before the call ("none", "wrapped").  A sum
\* that fits is returned as it is.  A sum above MaxV panics in a build with
\* overflow checks and wraps in a build without; a run that has wrapped
\* once is a build without checks.
ComposeOutcomes(self, other, of) ==
    LET r == compose(self, other) IN
    IF InType(r)
    THEN {[ret |-> r, overflow |-> of]}
    ELSE {[ret |-> Truncate(r), overflow |-> "wrapped"]}
            \cup (IF of = "none" THEN {[ret |-> None, overflow |-> "panicked"]} ELSE {})

\* -------------------------------------------------------------- state ----
VARIABLES
    m1, m2, m3,          \* the measurements the caller declared
    r12, r21,            \* m1.compose(m2), m2.compose(m1)
    r23, left, right,    \* m2.compose(m3), (m1 o m2) o m3, m1 o (m2 o m3)
    candidate, outcome,  \* the last call m1.matches(candidate) and its result
    calls,               \* the number of matches calls of the call harness
    stderr,              \* the number of lines written to stderr
    overflow,            \* "none", "wrapped" or "panicked"
    acc, total,          \* the folded measurement and the sum of the observed values
    valid,               \* every step's matches returned true
    steps                \* the number of steps folded

operands == <<m1, m2, m3>>
pairResults == <<r12, r21>>
tripleResults == <<r23, left, right>>
probe == <<candidate, outcome, calls>>
fold == <<acc, total, valid, steps>>
vars == <<m1, m2, m3, r12, r21, r23, left, right, candidate, outcome, calls,
          stderr, overflow, acc, total, valid, steps>>

Running == overflow # "panicked"

Idle ==
    /\ r12 = None /\ r21 = None /\ r23 = None /\ left = None /\ right = None
    /\ candidate = 0 /\ outcome = TRUE /\ calls = 0
    /\ stderr = 0 /\ overflow = "none"
    /\ acc = None /\ total = 0 /\ valid = TRUE /\ steps = 0

\* ------------------------------------------------------- call harness ----
\* Two declared measurements; matches and compose are called on them.
Init ==
    /\ m1 \in Declared /\ m2 \in Declared /\ m3 = None
    /\ Idle

\* m1.matches(c)
Matches(c) ==
    /\ Running /\ calls < MaxCalls
    /\ candidate' = c
    /\ outcome' = matches(m1, c)
    /\ stderr' = stderr + Diagnostics(matches(m1, c))
    /\ calls' = calls + 1
    /\ UNCHANGED <<operands, pairResults, tripleResults, overflow, fold>>

\* r12 := m1.compose(&m2)
ComposeForward ==
    /\ Running /\ r12 = None
    /\ \E o \in ComposeOutcomes(m1, m2, overflow) :
            r12' = o.ret /\ overflow' = o.overflow
    /\ UNCHANGED <<operands, r21, tripleResults, probe, stderr, fold>>

\* r21 := m2.compose(&m1)
ComposeBackward ==
    /\ Running /\ r21 = None
    /\ \E o \in ComposeOutcomes(m2, m1, overflow) :
            r21' = o.ret /\ overflow' = o.overflow
    /\ UNCHANGED <<operands, r12, tripleResults, probe, stderr, fold>>

Next ==
    \/ \E c \in Values : Matches(c)
    \/ ComposeForward
    \/ ComposeBackward

Spec == Init /\ [][Next]_vars

\* --------------------------------------------------- grouping harness ----
\* Three declared measurements, composed in both groupings, the left one
\* first: (m1 o m2) o m3, then m1 o (m2 o m3).
InitAssoc ==
    /\ m1 \in Declared /\ m2 \in Declared /\ m3 \in Declared
    /\ Idle

\* left := r12.compose(&m3)
ComposeLeftOuter ==
    /\ Running /\ r12 # None /\ left = None
    /\ \E o \in ComposeOutcomes(r12, m3, overflow) :
            left' = o.ret /\ overflow' = o.overflow
    /\ UNCHANGED <<operands, pairResults, r23, right, probe, stderr, fold>>

\* r23 := m2.compose(&m3)
ComposeRightInner ==
    /\ Running /\ left # None /\ r23 = None
    /\ \E o \in ComposeOutcomes(m2, m3, overflow) :
            r23' = o.ret /\ overflow' = o.overflow
    /\ UNCHANGED <<operands, pairResults, left, right, probe, stderr, fold>>

\* right := m1.compose(&r23)
ComposeRightOuter ==
    /\ Running /\ r23 # None /\ right = None
    /\ \E o \in ComposeOutcomes(m1, r23, overflow) :
            right' = o.ret /\ overflow' = o.overflow
    /\ UNCHANGED <<operands, pairResults, r23, left, probe, stderr, fold>>

NextAssoc ==
    \/ ComposeForward
    \/ ComposeLeftOuter
    \/ ComposeRightInner
    \/ ComposeRightOuter

SpecAssoc == InitAssoc /\ [][NextAssoc]_vars

\* --------------------------------------------------- sequence harness ----
\* A sequence of steps.  Each step declares a measurement m, observes a
\* value v, validates it with m.matches(v) and folds m into the
\* accumulator: acc := m for the first step, acc := acc.compose(&m) after.
InitFold ==
    /\ m1 = None /\ m2 = None /\ m3 = None
    /\ Idle

Observe(m, v) ==
    /\ stderr' = stderr + Diagnostics(matches(m, v))
    /\ valid' = (valid /\ matches(m, v))
    /\ total' = total + v
    /\ steps' = steps + 1

First(m, v) ==
    /\ Running /\ steps = 0
    /\ Observe(m, v)
    /\ acc' = m
    /\ UNCHANGED <<operands, pairResults, tripleResults, probe, overflow>>

Step(m, v) ==
    /\ Running /\ steps > 0 /\ steps < MaxSteps
    /\ Observe(m, v)
    /\ \E o \in ComposeOutcomes(acc, m, overflow) :
            /\ acc' = (IF o.overflow = "panicked" THEN acc ELSE o.ret)
            /\ overflow' = o.overflow
    /\ UNCHANGED <<operands, pairResults, tripleResults, probe>>

NextFold ==
    \/ \E m \in Declared, v \in Inputs : First(m, v)
    \/ \E m \in Declared, v \in Inputs : Step(m, v)

SpecFold == InitFold /\ [][NextFold]_vars

\* ========================================================= properties ====
\* The properties are stated over the non-negative integers: they speak of
\* the results of calls whose sums were representable (overflow = "none").
\* What compose does with a sum above the type's maximum is claim C8.

\* A Range is well-formed when lo <= hi; the other variants always are.
WellFormed(m) == m[1] = "Range" => m[2] <= m[3]

\* The acceptance condition of each variant as the specification words it.
Accepts(m, c) ==
    \/ m[1] = "Exact" /\ c = m[2]
    \/ m[1] = "Range" /\ m[2] < c /\ c < m[3]
    \/ m[1] = "UpperBound" /\ c < m[2]

\* The entry of the composition table for the pairing of s and o, as the
\* open set of the candidates x it admits.
TableAdmits(s, o, x) ==
    LET tags == {s[1], o[1]}
        e == IF s[1] = "Exact" THEN s ELSE o
        r == IF s[1] = "Range" THEN s ELSE o
        u == IF s[1] = "UpperBound" THEN s ELSE o
    IN  CASE tags = {"Exact"} -> x = s[2] + o[2]
          [] tags = {"Exact", "Range"} -> e[2] + r[2] < x /\ x < e[2] + r[3]
          [] tags = {"Range"} -> s[2] + o[2] < x /\ x < s[3] + o[3]
          [] tags = {"Range", "UpperBound"} -> r[2] < x /\ x < r[3] + u[2]
          [] OTHER -> x < s[2] + o[2]

\* C1: composition soundness: whenever a satisfies m1 and b satisfies m2,
\* a + b satisfies m1.compose(m2) (and b + a satisfies m2.compose(m1)).
C1_Soundness ==
    overflow = "none" =>
        \A a \in Values, b \in Values :
            matches(m1, a) /\ matches(m2, b) =>
                /\ r12 # None => matches(r12, a + b)
                /\ r21 # None => matches(r21, b + a)

\* A composition of two satisfiable measurements of different variants.
C1_Witness ==
    /\ overflow = "none" /\ r12 # None /\ r21 # None
    /\ m1[1] = "Range" /\ m2[1] = "UpperBound"
    /\ \E a \in Values, b \in Values :
            matches(m1, a) /\ matches(m2, b) /\ matches(r12, a + b)

C4_Matches ==
    calls > 0 =>
        /\ outcome = Accepts(m1, candidate)
        /\ m1[1] = "Range" /\ candidate \in {m1[2], m1[3]} => outcome = FALSE
        /\ m1[1] = "UpperBound" /\ candidate = m1[2] => outcome = FALSE

\* A Range asked about its own upper bound, lo < hi.
C4_Witness ==
    /\ calls > 0 /\ m1[1] = "Range" /\ m1[2] < m1[3]
    /\ candidate = m1[3] /\ outcome = FALSE

\* C6: compose is commutative on acceptance sets: m1.compose(m2) and
\* m2.compose(m1) admit the same candidates.
C6_Commutative ==
    r12 # None /\ r21 # None =>
        \A x \in Values : matches(r12, x) <=> matches(r21, x)

\* Both orders of a Range with an UpperBound, admitting some sum a + b.
C6_Witness ==
    /\ overflow = "none" /\ r12 # None /\ r21 # None
    /\ m1[1] = "Range" /\ m2[1] = "UpperBound"
    /\ \E a \in Values, b \in Values :
            matches(m1, a) /\ matches(m2, b) /\ matches(r21, a + b)

\* C9: a matches call writes exactly one diagnostic when it returns false
\* and none when it returns true, its result is the containment predicate
\* either way, and no call of matches or compose changes the measurements
\* it is called on or writes anything else.
C9_Diagnostic ==
    [][/\ m1' = m1 /\ m2' = m2
       /\ calls' = calls + 1 =>
            /\ outcome' = Accepts(m1, candidate')
            /\ stderr' = stderr + (IF outcome' THEN 0 ELSE 1)
       /\ calls' = calls => stderr' = stderr]_vars

\* A refused candidate has left one line, after a compose call.
C9_Witness ==
    calls = 1 /\ outcome = FALSE /\ stderr = 1 /\ r12 # None

\* The sums a + b of an a that satisfies s and a b that satisfies o.
Reachable(s, o, x) ==
    \E a \in Values, b \in Values : matches(s, a) /\ matches(o, b) /\ a + b = x

\* C2 as stated: for well-formed m1 and m2 the composed measurement admits
\* only reachable sums.  The code refutes it: Exact(1).compose(UpperBound(0))
\* is UpperBound(1), which admits 0.
C2_Tight ==
    overflow = "none" /\ r12 # None /\ WellFormed(m1) /\ WellFormed(m2) =>
        \A x \in Values : matches(r12, x) => Reachable(m1, m2, x)

\* C2, amended: composition is tight when one operand is an Exact and the
\* other an Exact or a Range: for well-formed m1 and m2 of such a pairing,
\* every candidate the composed measurement admits is a reachable sum.
C2_TightExact ==
    /\ overflow = "none" /\ WellFormed(m1) /\ WellFormed(m2)
    /\ "Exact" \in {m1[1], m2[1]} /\ "UpperBound" \notin {m1[1], m2[1]}
    => \A x \in Values :
            /\ r12 # None /\ matches(r12, x) => Reachable(m1, m2, x)
            /\ r21 # None /\ matches(r21, x) => Reachable(m2, m1, x)

\* An Exact above 0 composed with a Range that some value satisfies.
C2_Witness ==
    /\ overflow = "none" /\ r12 # None
    /\ m1[1] = "Exact" /\ m1[2] > 0 /\ m2[1] = "Range"
    /\ \E x \in Values : matches(r12, x) /\ Reachable(m1, m2, x)

\* p and q admit the same candidates.
SameSet(p, q) == \A x \in Values : matches(p, x) <=> matches(q, x)

\* C5 as stated: the two groupings of m1, m2, m3 admit the same candidates.
\* The code refutes it: (Exact(1) o UpperBound(0)) o Range(0, 1) is
\* Range(0, 2), Exact(1) o (UpperBound(0) o Range(0, 1)) is Range(1, 2).
C5_Associative ==
    overflow = "none" /\ left # None /\ right # None => SameSet(left, right)

\* C5, amended: the two groupings admit the same candidates unless the three
\* measurements are one of each variant with the Range first or last (so
\* that one grouping composes the Exact with the UpperBound directly).
C5_AssociativeUnlessMixed ==
    /\ overflow = "none" /\ left # None /\ right # None
    /\ {m1[1], m2[1], m3[1]} # {"Exact", "Range", "UpperBound"} \/ m2[1] = "Range"
    => SameSet(left, right)

\* One of each variant with the Range in the middle, both groupings
\* admitting some candidate.
C5_Witness ==
    /\ overflow = "none" /\ left # None /\ right # None
    /\ m1[1] = "Exact" /\ m1[2] > 0 /\ m2[1] = "Range" /\ m3[1] = "UpperBound"
    /\ \E x \in Values : matches(left, x) /\ matches(right, x)

\* C7: when every step's observed value satisfied the step's declared
\* measurement, the accumulator admits the running sum after every step.
C7_Aggregate ==
    overflow = "none" /\ steps >= 1 /\ valid => matches(acc, total)

\* A full sequence of valid steps folded into a Range with a shifted lower
\* bound.
C7_Witness ==
    /\ overflow = "none" /\ steps = MaxSteps /\ valid
    /\ acc[1] = "Range" /\ acc[2] > 0 /\ total > acc[2]

\* C8 as stated: compose returns a measurement and never fails.  The code
\* refutes it for a machine integer: a bound sum above the type's maximum
\* panics in a build with overflow checks.
C8_Total == overflow # "panicked"

\* C10: when every declared Range has lo <= hi, so has every Range that a
\* sequence of compositions, in either grouping, produces from them.
C10_WellFormed ==
    overflow = "none" /\ WellFormed(m1) /\ WellFormed(m2) /\ WellFormed(m3) =>
        \A r \in {r12, left, r23, right} : r # None => WellFormed(r)

\* Both groupings done on a Range, an UpperBound and an Exact above 0, the
\* results Ranges with lo < hi.
C10_Witness ==
    /\ overflow = "none" /\ left # None /\ right # None
    /\ m1[1] = "Range" /\ m1[2] < m1[3] /\ m2[1] = "UpperBound" /\ m3[1] = "Exact"
    /\ m3[2] > 0 /\ left[1] = "Range" /\ left[2] < left[3] /\ right[2] < right[3]

====
